---------------------------- MODULE Spec2Model ----------------------------
(***************************************************************************)
(* The grouped z-score / anomaly pipeline of the Arkouda NYC-taxi          *)
(* notebooks: clean_tutorial_nyc_taxi_parquet.ipynb ("tutorial") and the   *)
(* lightning notebook src/unnamed/part_000 ("lightning").                  *)
(*                                                                         *)
(* A table is a function from column names to equally long sequences.      *)
(* Row positions are 1-based here (Python position p is position p+1).     *)
(* fare_amount is a float64 column; floats are modelled as binary floating *)
(* point numbers m * 2^e with Prec significant bits and round-to-nearest-  *)
(* even, so that rounding and cancellation are part of the model.          *)
(*                                                                         *)
(* Spec runs either notebook cell by cell on a server that reduces every   *)
(* group's rows in turn; the tutorial notebook also builds the taxi zone   *)
(* lookup table and attaches the borough and zone columns.  SpecShards     *)
(* runs the lightning notebook on a server that keeps the sorted rows in   *)
(* NumShards blocks and combines the shards' partial results in any order. *)
(***************************************************************************)
EXTENDS Integers, Sequences, FiniteSets, TLC

(* ----------------------------- bounds --------------------------------- *)
\* longest enumerated table
MaxRows == 3
\* significant bits of the modelled floating point format
Prec == 8

(* ------------------------ floating point ------------------------------ *)
Abs(x) == IF x < 0 THEN -x ELSE x

RECURSIVE BitLen(_)
BitLen(a) == IF a = 0 THEN 0 ELSE 1 + BitLen(a \div 2)

\* canonical form: zero is (0, 0), otherwise the mantissa is odd
RECURSIVE Norm(_, _)
Norm(m, e) ==
  IF m = 0 THEN [m |-> 0, e |-> 0]
  ELSE IF m % 2 = 0 THEN Norm(m \div 2, e + 1)
  ELSE [m |-> m, e |-> e]

\* the float nearest to M * 2^E (ties to even); sticky: the exact value is
\* slightly above |M| * 2^E in magnitude
Round(M, E, sticky) ==
  LET a == Abs(M)
      k == BitLen(a) - Prec
  IN IF k <= 0 THEN Norm(M, E)
     ELSE LET q    == a \div (2 ^ k)
              r    == a % (2 ^ k)
              half == 2 ^ (k - 1)
              up   == r > half \/ (r = half /\ (sticky \/ q % 2 = 1))
              n    == IF up THEN q + 1 ELSE q
          IN Norm(IF M < 0 THEN -n ELSE n, E + k)

Zero == [m |-> 0, e |-> 0]
One == [m |-> 1, e |-> 0]
\* int -> float64 conversion
ToFloat(n) == Round(n, 0, FALSE)

Neg(a) == [m |-> -a.m, e |-> a.e]

Add(a, b) ==
  IF a.m = 0 THEN b
  ELSE IF b.m = 0 THEN a
  ELSE IF a.e - b.e > 2 * Prec + 2 THEN a
  ELSE IF b.e - a.e > 2 * Prec + 2 THEN b
  ELSE LET e == IF a.e < b.e THEN a.e ELSE b.e
       IN Round(a.m * 2 ^ (a.e - e) + b.m * 2 ^ (b.e - e), e, FALSE)

Sub(a, b) == Add(a, Neg(b))

Mul(a, b) == Round(a.m * b.m, a.e + b.e, FALSE)

\* a / b for b # 0: both mantissas are widened to Prec bits, so the integer
\* quotient carries more than Prec bits and the remainder is the sticky bit
Div(a, b) ==
  IF a.m = 0 THEN Zero
  ELSE LET sa == Prec - BitLen(Abs(a.m))
           sb == Prec - BitLen(Abs(b.m))
           n  == Abs(a.m) * 2 ^ (sa + Prec + 1)
           d  == Abs(b.m) * 2 ^ sb
           q  == n \div d
           s  == IF (a.m < 0) = (b.m < 0) THEN 1 ELSE -1
       IN Round(s * q, (a.e - sa) - (b.e - sb) - (Prec + 1), n % d # 0)

\* x ** 2
Sq(x) == Mul(x, x)

Lt(a, b) == Sub(a, b).m < 0
Gt(a, b) == Lt(b, a)
Ge(a, b) == ~Lt(a, b)

(* --------------------------- input tables ----------------------------- *)
\* (pickup, dropoff) pairs of the enumerated rows: two routes share the
\* pickup location, two share the dropoff location
Routes == {<<1, 1>>, <<1, 2>>, <<2, 1>>}

\* -1, 3.375, 10
Fares == {[m |-> -1, e |-> 0], [m |-> 27, e |-> -3], [m |-> 5, e |-> 1]}

Table(pu, do, fare) ==
  [PULocationID |-> pu, DOLocationID |-> do, fare_amount |-> fare]

EnumTables ==
  UNION {{Table([i \in 1..n |-> route[i][1]], [i \in 1..n |-> route[i][2]], fare) :
            route \in [1..n -> Routes], fare \in [1..n -> Fares]} : n \in 0..MaxRows}

\* group A = (1,1) with fares 10, 10, 10 and group B = (1,2) with fares 0, 20
SyntheticTable ==
  Table(<<1, 1, 1, 1, 1>>, <<1, 1, 1, 2, 2>>,
        <<ToFloat(10), ToFloat(10), ToFloat(10), ToFloat(0), ToFloat(20)>>)

\* two routes of 18 rides each, interleaved; every ride costs 0 except one
\* ride of 4.5 on each route (rows 7 and 30), plus a third route with a ride
\* of 10 (row 37) and a ride with the negative fare -1 (row 38)
OutlierTable ==
  Table([i \in 1..38 |-> IF i >= 37 THEN 1 ELSE 2],
        [i \in 1..38 |-> IF i >= 37 THEN 1 ELSE 1 + (i % 2)],
        [i \in 1..38 |-> IF i \in {7, 30} THEN [m |-> 9, e |-> -1]
                         ELSE IF i = 37 THEN ToFloat(10)
                         ELSE IF i = 38 THEN Neg(One) ELSE Zero])

Tables == EnumTables \cup {SyntheticTable, OutlierTable}

\* three rides on one route whose fares do not add up exactly in Prec bits:
\* 128 + 129 is rounded, 1 + 128 is not
RoundingTable ==
  Table(<<1, 1, 1>>, <<1, 1, 1>>, <<ToFloat(1), ToFloat(128), ToFloat(129)>>)

NRows(t) == Len(t["fare_amount"])


\* TRUE; naming a loop's running value makes it be computed at each step
\* instead of being carried along as an unevaluated expression
Evaluated(x) == x = x

(* ------------------------ boolean-mask indexing ----------------------- *)
\* out followed by the entries of col from position i on where mask is TRUE
RECURSIVE MaskFrom(_, _, _, _)
MaskFrom(col, mask, i, out) ==
  IF Evaluated(out) /\ i > Len(col) THEN out
  ELSE MaskFrom(col, mask, i + 1, IF mask[i] THEN Append(out, col[i]) ELSE out)

\* MaskIndex with a fault: the selected entries come out in reverse order
RECURSIVE MaskFromReversed(_, _, _, _)
MaskFromReversed(col, mask, i, out) ==
  IF Evaluated(out) /\ i > Len(col) THEN out
  ELSE MaskFromReversed(col, mask, i + 1,
                        IF mask[i] THEN <<col[i]>> \o out ELSE out)

MaskIndexReversed(col, mask) == MaskFromReversed(col, mask, 1, <<>>)

\* col[mask]: the entries of col at the positions where mask is TRUE, in order
MaskIndex(col, mask) == MaskFrom(col, mask, 1, <<>>)

\* {k: v[mask] for k, v in data.items()}
FilterItems(t, mask) == [k \in DOMAIN t |-> MaskIndex(t[k], mask)]

\* SetColumn with a fault: the new column replaces the table
SetColumnAlone(t, name, column) == [k \in {name} |-> column]

\* data[name] = column
SetColumn(t, name, column) ==
  [k \in DOMAIN t \cup {name} |-> IF k = name THEN column ELSE t[k]]

(* ------------------------------ GroupBy ------------------------------- *)
\* the key tuple of row i
KeyAt(keys, i) == [c \in 1..Len(keys) |-> keys[c][i]]

\* lexicographic order of key tuples
KeyLess(k1, k2) ==
  \E c \in 1..Len(k1) : k1[c] < k2[c] /\ \A d \in 1..(c - 1) : k1[d] = k2[d]

\* position of row i in the stable sort of the rows by key
Rank(keys, n, i) ==
  1 + Cardinality({j \in 1..n : \/ KeyLess(KeyAt(keys, j), KeyAt(keys, i))
                                 \/ (KeyAt(keys, j) = KeyAt(keys, i) /\ j < i)})

\* the elements of a set of numbers as an increasing sequence
SortedSeq(S) ==
  [g \in 1..Cardinality(S) |-> CHOOSE s \in S : Cardinality({t \in S : t < s}) = g - 1]

\* SegmentStart with a fault: only the first key column opens a new segment
SegmentStartFirstKey(keys, perm, k) ==
  k = 1 \/ keys[1][perm[k]] # keys[1][perm[k - 1]]

\* sorted position k opens a new group: its key differs from the one before
SegmentStart(keys, perm, k) ==
  k = 1 \/ KeyAt(keys, perm[k]) # KeyAt(keys, perm[k - 1])

\* ak.GroupBy(keys): the sorting permutation, the start of each group's
\* segment in sorted order, and the key columns of the segment heads
GroupBy(keys) ==
  LET n    == Len(keys[1])
      rank == [i \in 1..n |-> Rank(keys, n, i)]
      perm == [k \in 1..n |-> CHOOSE i \in 1..n : rank[i] = k]
      segs == SortedSeq({k \in 1..n : SegmentStart(keys, perm, k)})
  IN [length      |-> n,
      permutation |-> perm,
      segments    |-> segs,
      unique_keys |-> [c \in 1..Len(keys) |->
                         [g \in 1..Len(segs) |-> keys[c][perm[segs[g]]]]]]

NGroups(g) == Len(g.segments)

\* last sorted position of group i
SegEnd(g, i) == IF i < NGroups(g) THEN g.segments[i + 1] - 1 ELSE g.length

\* byloc.size()[1]
GroupSize(g) == [i \in 1..NGroups(g) |-> SegEnd(g, i) - g.segments[i] + 1]

\* acc plus the values at sorted positions lo..hi, added left to right
\* (Evaluated(acc): the running sum is computed before the loop goes on)
RECURSIVE SumRange(_, _, _, _, _)
SumRange(values, perm, lo, hi, acc) ==
  IF Evaluated(acc) /\ hi < lo THEN acc
  ELSE SumRange(values, perm, lo + 1, hi, Add(acc, values[perm[lo]]))

\* byloc.sum(values)[1]
GroupSum(g, values) ==
  [i \in 1..NGroups(g) |->
     SumRange(values, g.permutation, g.segments[i], SegEnd(g, i), Zero)]

\* byloc.mean(values)[1]
GroupMean(g, values) ==
  [i \in 1..NGroups(g) |-> Div(GroupSum(g, values)[i], ToFloat(GroupSize(g)[i]))]

\* one value per sorted position: the value of the segment it lies in
Expand(g, vals) ==
  [k \in 1..g.length |-> vals[Cardinality({i \in 1..NGroups(g) : g.segments[i] <= k})]]

\* byloc.broadcast(vals, permute=False): values in grouped (sorted) order
BroadcastGrouped(g, vals) == Expand(g, vals)

\* Broadcast with a fault: one value per group, not one per row
BroadcastPerGroup(g, vals) == [k \in 1..NGroups(g) |-> vals[k]]

\* byloc.broadcast(vals, permute=True): values in the original row order
Broadcast(g, vals) ==
  LET ex == Expand(g, vals)
  IN [i \in 1..g.length |-> ex[CHOOSE k \in 1..g.length : g.permutation[k] = i]]

(* ------------------------- elementwise columns ------------------------ *)
\* Variance with a fault: the mean is not squared
VarianceMeanNotSquared(sumsq, cnt, mean) ==
  [i \in 1..Len(mean) |-> Sub(Div(sumsq[i], ToFloat(cnt[i])), mean[i])]

\* (sumsq / w) - mf**2
Variance(sumsq, cnt, mean) ==
  [i \in 1..Len(mean) |-> Sub(Div(sumsq[i], ToFloat(cnt[i])), Sq(mean[i]))]

\* (fare - mean) / (std + 1)
ZScore(fare, mean, std) ==
  [i \in 1..Len(fare) |-> Div(Sub(fare[i], mean[i]), Add(std[i], One))]

(* ------------------------------- argmax ------------------------------- *)
\* MaxLoc with a fault: equal values move on to the higher index
MaxLocLast(cur, x) ==
  IF cur.val = x.val THEN (IF x.idx > cur.idx THEN x ELSE cur)
  ELSE IF Gt(x.val, cur.val) THEN x ELSE cur

\* maxloc combine: the larger value wins, equal values keep the lower index
MaxLoc(cur, x) ==
  IF cur.val = x.val THEN (IF x.idx < cur.idx THEN x ELSE cur)
  ELSE IF Gt(x.val, cur.val) THEN x ELSE cur

\* maxloc reduce over the positions i..Len(col), starting from cur
RECURSIVE MaxLocReduce(_, _, _)
MaxLocReduce(col, i, cur) ==
  IF Evaluated(cur) /\ i > Len(col) THEN cur
  ELSE MaxLocReduce(col, i + 1, MaxLoc(cur, [val |-> col[i], idx |-> i]))

\* what argmax of a column without rows may give: the notebook does not
\* decide it, the library's reduction identity does (an index outside the
\* column, or an exception)
EmptyArgmax ==
  {[idx |-> 0, err |-> "none"], [idx |-> -1, err |-> "none"],
   [idx |-> 1, err |-> "none"], [idx |-> 0, err |-> "ValueError"]}

\* column.argmax()
Argmax(col) ==
  IF Len(col) = 0 THEN EmptyArgmax
  ELSE {[idx |-> MaxLocReduce(col, 2, [val |-> col[1], idx |-> 1]).idx,
         err |-> "none"]}

(* ----------------------- reductions across shards --------------------- *)
\* the server keeps an array in consecutive blocks, one per shard; a reduction
\* has every shard reduce its own block and then combines the partial results
NumShards == 2

\* the ways to cut n sorted positions into NumShards consecutive blocks:
\* block s holds the positions after cut s - 1 up to cut s
Cuts(n) ==
  {c \in [1..(NumShards - 1) -> 0..n] :
     \A s \in 1..(NumShards - 2) : c[s] <= c[s + 1]}

\* the orders in which n shards can hand in their partial results
Orders(n) ==
  {o \in [1..n -> 1..n] : \A a, b \in 1..n : o[a] = o[b] => a = b}

\* BlockLo with a fault: a block starts on the last position of the block
\* before it, so that position is reduced by two shards
BlockLoOverlap(c, s) == IF s = 1 THEN 1 ELSE c[s - 1]

\* first and last sorted position of block s
BlockLo(c, s) == IF s = 1 THEN 1 ELSE c[s - 1] + 1

BlockHi(c, n, s) == IF s = Len(c) + 1 THEN n ELSE c[s]

Max(a, b) == IF a < b THEN b ELSE a

Min(a, b) == IF a < b THEN a ELSE b

\* first and last sorted position of the part of group i that lies in block s
PartLo(g, c, i, s) == Max(g.segments[i], BlockLo(c, s))

PartHi(g, c, i, s) == Min(SegEnd(g, i), BlockHi(c, g.length, s))

\* what shard s contributes to group i: the number of its rows, their sum
PartialCount(g, c, i, s) ==
  IF PartHi(g, c, i, s) < PartLo(g, c, i, s) THEN 0
  ELSE PartHi(g, c, i, s) - PartLo(g, c, i, s) + 1

PartialSum(g, values, c, i, s) ==
  SumRange(values, g.permutation, PartLo(g, c, i, s), PartHi(g, c, i, s), Zero)

\* the partial results combined in the order the shards hand them in
RECURSIVE CombineCounts(_, _, _, _)
CombineCounts(partials, order, k, acc) ==
  IF k > Len(order) THEN acc
  ELSE CombineCounts(partials, order, k + 1, acc + partials[order[k]])

RECURSIVE CombineSums(_, _, _, _)
CombineSums(partials, order, k, acc) ==
  IF Evaluated(acc) /\ k > Len(order) THEN acc
  ELSE CombineSums(partials, order, k + 1, Add(acc, partials[order[k]]))

\* byloc.size()[1], byloc.sum(values)[1] and byloc.mean(values)[1] over blocks
ShardedSize(g, c, order) ==
  [i \in 1..NGroups(g) |->
     CombineCounts([s \in 1..(Len(c) + 1) |-> PartialCount(g, c, i, s)],
                   order, 1, 0)]

ShardedSum(g, values, c, order) ==
  [i \in 1..NGroups(g) |->
     CombineSums([s \in 1..(Len(c) + 1) |-> PartialSum(g, values, c, i, s)],
                 order, 1, Zero)]

ShardedMean(g, values, c, order) ==
  [i \in 1..NGroups(g) |->
     Div(ShardedSum(g, values, c, order)[i],
         ToFloat(ShardedSize(g, c, order)[i]))]

(* ------------------------ taxi zone lookup table ---------------------- *)
\* a pandas DataFrame: the row labels and the columns
NumZones == 3

\* a missing cell
NaN == "NaN"

\* the header of taxi_zone_lookup.csv
CsvColumns == {"LocationID", "Borough", "Zone", "service_zone"}

\* the text of the cell in column cname of the row of zone i: the file lists
\* the zones 1, 2, ... in order; the Zone cell of zone 2 is empty
CsvCell(cname, i) ==
  IF cname = "Borough"
  THEN (IF i = 1 THEN "EWR" ELSE IF i = 2 THEN "Queens" ELSE "Bronx")
  ELSE IF cname = "Zone"
  THEN (IF i = 1 THEN "Newark Airport" ELSE IF i = 2 THEN ""
        ELSE "Allerton/Pelham Gardens")
  ELSE IF i = 1 THEN "EWR" ELSE "Boro Zone"

\* def cvt_to_string(v)
cvt_to_string(val) == IF val = "" THEN "N/A" ELSE val

\* the columns the converters are given for
cvt == {"Borough", "Zone", "service zone"}

\* pd.read_csv('./taxi_zone_lookup.csv', converters=cvt)
read_csv ==
  [index |-> [i \in 1..NumZones |-> i - 1],
   cols  |-> [cname \in CsvColumns |->
                [i \in 1..NumZones |->
                   IF cname = "LocationID" THEN i
                   ELSE IF cname \in cvt THEN cvt_to_string(CsvCell(cname, i))
                   ELSE CsvCell(cname, i)]]]

\* pd.DataFrame({'LocationID': [0], 'Borough': ['N/A'], 'service_zone':['N/A']})
top_row ==
  [index |-> <<0>>,
   cols  |-> [cname \in {"LocationID", "Borough", "service_zone"} |->
                IF cname = "LocationID" THEN <<0>> ELSE <<"N/A">>]]

\* column cname of a frame, missing cells where the frame has no such column
ColumnOrNaN(df, cname) ==
  IF cname \in DOMAIN df.cols THEN df.cols[cname]
  ELSE [i \in 1..Len(df.index) |-> NaN]

\* Concat with a fault: the second frame's rows come first
ConcatSwapped(df1, df2) ==
  [index |-> df2.index \o df1.index,
   cols  |-> [cname \in DOMAIN df1.cols \cup DOMAIN df2.cols |->
                ColumnOrNaN(df2, cname) \o ColumnOrNaN(df1, cname)]]

\* pd.concat([df1, df2])
Concat(df1, df2) ==
  [index |-> df1.index \o df2.index,
   cols  |-> [cname \in DOMAIN df1.cols \cup DOMAIN df2.cols |->
                ColumnOrNaN(df1, cname) \o ColumnOrNaN(df2, cname)]]

\* df.reset_index(drop=True)
ResetIndex(df) ==
  [index |-> [i \in 1..Len(df.index) |-> i - 1], cols |-> df.cols]

\* df[cname].dtype.name
DtypeName(cname) == IF cname = "LocationID" THEN "int64" ELSE "object"

\* str(x) of a cell
ToStr(x) == IF x = NaN THEN "nan" ELSE x

\* def ak_create_from_df(df)
ak_create_from_df(df) ==
  [cname \in DOMAIN df.cols |->
     IF DtypeName(cname) = "object"
     THEN [i \in 1..Len(df.index) |-> ToStr(df.cols[cname][i])]
     ELSE df.cols[cname]]

\* (aktzlut['LocationID'] == ak.arange(aktzlut['LocationID'].size)).all()
ZeroUp(t) ==
  \A i \in 1..Len(t["LocationID"]) : t["LocationID"][i] = i - 1

\* col[idx]: the entries of col at the zero-up positions idx
Gather(col, idx) == [i \in 1..Len(idx) |-> col[idx[i] + 1]]

(* ---------------------------- order of cells -------------------------- *)
\* the code cells of a notebook that change its state, top to bottom
Cells(nb) ==
  IF nb = "tutorial"
  THEN <<"non_neg", "filter", "tzlut", "aktzlut", "borough", "zone",
         "groupby", "size", "mean", "sf", "broadcast", "z", "exorbitant",
         "worst", "done">>
  ELSE <<"groupby", "size", "mean", "sf", "broadcast", "z", "worst", "done">>

\* Following with a fault: the broadcast cell stands before the cells that
\* compute the mean and sf
FollowingBroadcastEarly(nb, cell) ==
  IF cell = "size" THEN "broadcast"
  ELSE IF cell = "broadcast" THEN "mean"
  ELSE IF cell = "sf" THEN "z"
  ELSE Cells(nb)[1 + CHOOSE k \in 1..Len(Cells(nb)) : Cells(nb)[k] = cell]

\* the cell that is run after cell
Following(nb, cell) ==
  Cells(nb)[1 + CHOOSE k \in 1..Len(Cells(nb)) : Cells(nb)[k] = cell]

(* ------------------------------- state -------------------------------- *)
VARIABLES
  notebook,    \* which notebook runs: "tutorial" or "lightning"
  pc,          \* the next code cell
  data,        \* the DataFrame `data`
  non_neg,     \* mask of the rows with fare_amount >= 0
  byloc,       \* the GroupBy
  u, v, w,     \* unique pickup ids, unique dropoff ids, group sizes
  mf,          \* per-group mean fare
  sf,          \* per-group value broadcast as fare_std
  exorbitant,  \* mask of the rows with fare_z > 2
  exdf,        \* the rows selected by exorbitant
  worst,       \* result of argmax
  row,         \* the row read at worst
  err,         \* exception that ended the run, "none" if there is none
  cuts,        \* where the server cuts the sorted rows into blocks
  tzlut,       \* the pandas taxi zone lookup table
  aktzlut      \* the taxi zone lookup table as arkouda columns

vars == <<notebook, pc, data, non_neg, byloc, u, v, w, mf, sf, exorbitant,
          exdf, worst, row, err, cuts, tzlut, aktzlut>>

NoTable == [k \in {} |-> <<>>]
NoFrame == [index |-> <<>>, cols |-> NoTable]
NoGroupBy == [length |-> 0, permutation |-> <<>>, segments |-> <<>>,
              unique_keys |-> <<>>]

\* the threshold of the exorbitant-fare filter
Two == ToFloat(2)

Init ==
  /\ notebook \in {"tutorial", "lightning"}
  /\ data \in Tables
  /\ pc = Cells(notebook)[1]
  /\ non_neg = <<>>
  /\ byloc = NoGroupBy
  /\ u = <<>> /\ v = <<>> /\ w = <<>>
  /\ mf = <<>> /\ sf = <<>>
  /\ exorbitant = <<>>
  /\ exdf = NoTable
  /\ worst = 0
  /\ row = NoTable
  /\ err = "none"
  /\ cuts = <<>>
  /\ tzlut = NoFrame
  /\ aktzlut = NoTable

\* non_neg = data['fare_amount'] >= 0
NonNegMask ==
  /\ pc = "non_neg"
  /\ non_neg' = [i \in 1..NRows(data) |-> Ge(data["fare_amount"][i], Zero)]
  /\ pc' = Following(notebook, pc)
  /\ UNCHANGED <<notebook, cuts, tzlut, aktzlut,
                 data, byloc, u, v, w, mf, sf, exorbitant, exdf,
                 worst, row, err>>

\* data = ak.DataFrame({k:v[non_neg] for k, v in data.items()})
NonNegFilter ==
  /\ pc = "filter"
  /\ data' = FilterItems(data, non_neg)
  /\ pc' = Following(notebook, pc)
  /\ UNCHANGED <<notebook, cuts, tzlut, aktzlut,
                 non_neg, byloc, u, v, w, mf, sf, exorbitant, exdf,
                 worst, row, err>>

\* tzlut = pd.read_csv('./taxi_zone_lookup.csv', converters=cvt)
\* tzlut = pd.concat([top_row, tzlut]).reset_index(drop=True)
TzlutCell ==
  /\ pc = "tzlut"
  /\ tzlut' = ResetIndex(Concat(top_row, read_csv))
  /\ pc' = Following(notebook, pc)
  /\ UNCHANGED <<notebook, cuts, aktzlut, data, non_neg, byloc, u, v, w, mf,
                 sf, exorbitant, exdf, worst, row, err>>

\* aktzlut = ak_create_from_df(tzlut)
AktzlutCell ==
  /\ pc = "aktzlut"
  /\ aktzlut' = ak_create_from_df(tzlut)
  /\ pc' = Following(notebook, pc)
  /\ UNCHANGED <<notebook, cuts, tzlut, data, non_neg, byloc, u, v, w, mf, sf,
                 exorbitant, exdf, worst, row, err>>

\* data['PUBorough'] = aktzlut['Borough'][data['PULocationID']]
\* data['DOBorough'] = aktzlut['Borough'][data['DOLocationID']]
BoroughCell ==
  /\ pc = "borough"
  /\ data' = SetColumn(SetColumn(data, "PUBorough",
                 Gather(aktzlut["Borough"], data["PULocationID"])),
               "DOBorough", Gather(aktzlut["Borough"], data["DOLocationID"]))
  /\ pc' = Following(notebook, pc)
  /\ UNCHANGED <<notebook, cuts, tzlut, aktzlut, non_neg, byloc, u, v, w, mf,
                 sf, exorbitant, exdf, worst, row, err>>

\* data['PUZone'] = aktzlut['Zone'][data['PULocationID']]
\* data['DOZone'] = aktzlut['Zone'][data['DOLocationID']]
ZoneCell ==
  /\ pc = "zone"
  /\ data' = SetColumn(SetColumn(data, "PUZone",
                 Gather(aktzlut["Zone"], data["PULocationID"])),
               "DOZone", Gather(aktzlut["Zone"], data["DOLocationID"]))
  /\ pc' = Following(notebook, pc)
  /\ UNCHANGED <<notebook, cuts, tzlut, aktzlut, non_neg, byloc, u, v, w, mf,
                 sf, exorbitant, exdf, worst, row, err>>

\* byloc = ak.GroupBy([data['PULocationID'], data['DOLocationID']])
MakeGroupBy ==
  /\ pc = "groupby"
  /\ byloc' = GroupBy(<<data["PULocationID"], data["DOLocationID"]>>)
  /\ pc' = Following(notebook, pc)
  /\ UNCHANGED <<notebook, cuts, tzlut, aktzlut,
                 data, non_neg, u, v, w, mf, sf, exorbitant, exdf,
                 worst, row, err>>

\* (u, v), w = byloc.size()
Size ==
  /\ pc = "size"
  /\ u' = byloc.unique_keys[1]
  /\ v' = byloc.unique_keys[2]
  /\ w' = GroupSize(byloc)
  /\ pc' = Following(notebook, pc)
  /\ UNCHANGED <<notebook, cuts, tzlut, aktzlut,
                 data, non_neg, byloc, mf, sf, exorbitant, exdf,
                 worst, row, err>>

\* _, mf = byloc.mean(data['fare_amount'])
Mean ==
  /\ pc = "mean"
  /\ mf' = GroupMean(byloc, data["fare_amount"])
  /\ pc' = Following(notebook, pc)
  /\ UNCHANGED <<notebook, cuts, tzlut, aktzlut,
                 data, non_neg, byloc, u, v, w, sf, exorbitant, exdf,
                 worst, row, err>>

\* sf = (byloc.sum(data['fare_amount']**2)[1] / w) - mf**2
Sf ==
  /\ pc = "sf"
  /\ sf' = Variance(GroupSum(byloc, [i \in 1..NRows(data) |->
                                        Sq(data["fare_amount"][i])]), w, mf)
  /\ pc' = Following(notebook, pc)
  /\ UNCHANGED <<notebook, cuts, tzlut, aktzlut,
                 data, non_neg, byloc, u, v, w, mf, exorbitant, exdf,
                 worst, row, err>>

\* data['fare_mean'] = byloc.broadcast(mf, permute=True)
\* data['fare_std'] = byloc.broadcast(sf, permute=True)
BroadcastCell ==
  /\ pc = "broadcast"
  /\ data' = SetColumn(SetColumn(data, "fare_mean", Broadcast(byloc, mf)),
                       "fare_std", Broadcast(byloc, sf))
  /\ pc' = Following(notebook, pc)
  /\ UNCHANGED <<notebook, cuts, tzlut, aktzlut,
                 non_neg, byloc, u, v, w, mf, sf, exorbitant, exdf,
                 worst, row, err>>

\* data['fare_z'] = (data['fare_amount'] - data['fare_mean']) / (data['fare_std'] + 1)
ZCell ==
  /\ pc = "z"
  /\ data' = SetColumn(data, "fare_z",
               ZScore(data["fare_amount"], data["fare_mean"], data["fare_std"]))
  /\ pc' = Following(notebook, pc)
  /\ UNCHANGED <<notebook, cuts, tzlut, aktzlut,
                 non_neg, byloc, u, v, w, mf, sf, exorbitant, exdf,
                 worst, row, err>>

\* exorbitant = (data['fare_z'] > 2)
\* exdf = pd.DataFrame({k: v[exorbitant].to_ndarray() for k, v in data.items()})
ExorbitantCell ==
  /\ pc = "exorbitant"
  /\ LET mask == [i \in 1..NRows(data) |-> Gt(data["fare_z"][i], Two)]
     IN /\ exorbitant' = mask
        /\ exdf' = FilterItems(data, mask)
  /\ pc' = Following(notebook, pc)
  /\ UNCHANGED <<notebook, cuts, tzlut, aktzlut,
                 data, non_neg, byloc, u, v, w, mf, sf, worst, row,
                 err>>

\* worst = data['fare_z'].argmax()
\* {k:v[worst] for k, v in data.items()}
WorstCell ==
  /\ pc = "worst"
  /\ \E r \in Argmax(data["fare_z"]) :
       /\ worst' = r.idx
       /\ IF r.err # "none"
          THEN err' = r.err /\ row' = NoTable
          ELSE IF r.idx \notin 1..NRows(data)
          THEN err' = "IndexError" /\ row' = NoTable
          ELSE err' = "none" /\ row' = [k \in DOMAIN data |-> data[k][r.idx]]
  /\ pc' = Following(notebook, pc)
  /\ UNCHANGED <<notebook, cuts, tzlut, aktzlut,
                 data, non_neg, byloc, u, v, w, mf, sf, exorbitant,
                 exdf>>

Next ==
  \/ NonNegMask
  \/ NonNegFilter
  \/ TzlutCell
  \/ AktzlutCell
  \/ BoroughCell
  \/ ZoneCell
  \/ MakeGroupBy
  \/ Size
  \/ Mean
  \/ Sf
  \/ BroadcastCell
  \/ ZCell
  \/ ExorbitantCell
  \/ WorstCell

Spec == Init /\ [][Next]_vars

(* ------------- the same cells on a server with several shards --------- *)
\* (u, v), w = byloc.size()
SizeSharded ==
  /\ pc = "size"
  /\ u' = byloc.unique_keys[1]
  /\ v' = byloc.unique_keys[2]
  /\ \E order \in Orders(Len(cuts) + 1) : w' = ShardedSize(byloc, cuts, order)
  /\ pc' = Following(notebook, pc)
  /\ UNCHANGED <<notebook, cuts, tzlut, aktzlut, data, non_neg, byloc, mf, sf,
                 exorbitant, exdf, worst, row, err>>

\* _, mf = byloc.mean(data['fare_amount'])
MeanSharded ==
  /\ pc = "mean"
  /\ \E order \in Orders(Len(cuts) + 1) :
       mf' = ShardedMean(byloc, data["fare_amount"], cuts, order)
  /\ pc' = Following(notebook, pc)
  /\ UNCHANGED <<notebook, cuts, tzlut, aktzlut, data, non_neg, byloc, u, v, w,
                 sf, exorbitant, exdf, worst, row, err>>

\* sf = (byloc.sum(data['fare_amount']**2)[1] / w) - mf**2
SfSharded ==
  /\ pc = "sf"
  /\ \E order \in Orders(Len(cuts) + 1) :
       sf' = Variance(ShardedSum(byloc, [i \in 1..NRows(data) |->
                                           Sq(data["fare_amount"][i])],
                                 cuts, order), w, mf)
  /\ pc' = Following(notebook, pc)
  /\ UNCHANGED <<notebook, cuts, tzlut, aktzlut, data, non_neg, byloc, u, v, w,
                 mf, exorbitant, exdf, worst, row, err>>

\* the lightning notebook on a server that keeps the rows in NumShards
\* blocks, on trips that all start at pickup location 1
InitShards ==
  /\ notebook = "lightning"
  /\ data \in {t \in Tables \cup {RoundingTable} :
                 \A i \in 1..NRows(t) : t["PULocationID"][i] = 1}
  /\ pc = Cells(notebook)[1]
  /\ non_neg = <<>>
  /\ byloc = NoGroupBy
  /\ u = <<>> /\ v = <<>> /\ w = <<>>
  /\ mf = <<>> /\ sf = <<>>
  /\ exorbitant = <<>>
  /\ exdf = NoTable
  /\ worst = 0
  /\ row = NoTable
  /\ err = "none"
  /\ cuts \in Cuts(NRows(data))
  /\ tzlut = NoFrame
  /\ aktzlut = NoTable

NextShards ==
  \/ MakeGroupBy
  \/ SizeSharded
  \/ MeanSharded
  \/ SfSharded
  \/ BroadcastCell
  \/ ZCell
  \/ WorstCell

SpecShards == InitShards /\ [][NextShards]_vars

(* ------------- reference computations, straight from rows ------------ *)
Rows == 1..NRows(data)

\* the (pickup, dropoff) key of row i of data
RowKey(i) == <<data["PULocationID"][i], data["DOLocationID"][i]>>

\* the rows that share row i's key
SameKey(i) == {j \in Rows : RowKey(j) = RowKey(i)}

\* acc plus the entries of col at the rows of S from row i on, in row order
RECURSIVE SumFrom(_, _, _, _)
SumFrom(col, S, i, acc) ==
  IF Evaluated(acc) /\ i > Len(col) THEN acc
  ELSE SumFrom(col, S, i + 1, IF i \in S THEN Add(acc, col[i]) ELSE acc)

\* sum of col over the rows of S, in row order
SumWhere(col, S) == SumFrom(col, S, 1, Zero)

\* mean of fare_amount over the rows of S
RefMean(S) ==
  Div(SumWhere(data["fare_amount"], S), ToFloat(Cardinality(S)))

\* the rows byloc puts into group i
GroupRows(i) == {byloc.permutation[k] : k \in byloc.segments[i]..SegEnd(byloc, i)}

Groups == 1..NGroups(byloc)

RECURSIVE SumSeq(_, _)
SumSeq(q, n) == IF n = 0 THEN 0 ELSE SumSeq(q, n - 1) + q[n]

Grouped == pc \in {"mean", "sf", "broadcast", "z", "exorbitant", "worst", "done"}
Broadcasted == pc \in {"z", "exorbitant", "worst", "done"}
Scored == pc \in {"exorbitant", "worst", "done"}

(* ------------------------------- claims ------------------------------- *)
\* C1: grouping by (PULocationID, DOLocationID) puts every row into exactly
\* one group, the group keyed by the row's own key tuple; groups are
\* pairwise disjoint, distinct groups have distinct keys, the groups cover
\* the table, and the sizes returned by size() sum to the row count.
C1_GroupsPartitionRows ==
  Grouped =>
    /\ \A i \in Rows : Cardinality({k \in Groups : i \in GroupRows(k)}) = 1
    /\ \A k \in Groups : \A i \in GroupRows(k) : <<u[k], v[k]>> = RowKey(i)
    /\ \A k \in Groups : \A j \in Groups :
         k # j => /\ GroupRows(k) \cap GroupRows(j) = {}
                  /\ <<u[k], v[k]>> # <<u[j], v[j]>>
    /\ UNION {GroupRows(k) : k \in Groups} = Rows
    /\ \A k \in Groups : w[k] = Cardinality(GroupRows(k))
    /\ SumSeq(w, Len(w)) = NRows(data)

\* two groups that share the pickup id and differ in the dropoff id, rows of
\* one group apart from each other in the table
C1_Witness ==
  /\ Grouped
  /\ \E i \in Rows : \E j \in Rows : \E k \in Rows :
       /\ i < j /\ j < k
       /\ RowKey(i) = RowKey(k)
       /\ RowKey(i)[1] = RowKey(j)[1]
       /\ RowKey(i)[2] # RowKey(j)[2]

\* C2: fare_mean has one entry per row, and the entry of row i is the mean
\* of fare_amount over the rows with row i's (pickup, dropoff) key.
C2_BroadcastMeanPerRow ==
  Broadcasted =>
    /\ Len(data["fare_mean"]) = NRows(data)
    /\ DOMAIN data["fare_mean"] = Rows
    /\ \A i \in Rows : data["fare_mean"][i] = RefMean(SameKey(i))

\* rows of two groups with different means, interleaved in the table
C2_Witness ==
  /\ Broadcasted
  /\ \E i \in Rows : \E j \in Rows : \E k \in Rows :
       /\ i < j /\ j < k
       /\ RowKey(i) = RowKey(k)
       /\ RowKey(i) # RowKey(j)
       /\ data["fare_mean"][i] # data["fare_mean"][j]
       /\ data["fare_amount"][i] # data["fare_amount"][k]

\* largest r with r * r <= n
ISqrt(n) == CHOOSE r \in 0..(2 ^ (Prec + 2)) : r * r <= n /\ (r + 1) * (r + 1) > n

\* the float nearest to the square root of x, for x >= 0
Sqrt(x) ==
  IF x.m = 0 THEN Zero
  ELSE LET s0 == 2 * Prec + 2 - BitLen(x.m)
           s  == IF (x.e - s0) % 2 = 0 THEN s0 ELSE s0 + 1
           n  == x.m * 2 ^ s
           r  == ISqrt(n)
       IN Round(r, (x.e - s) \div 2, r * r # n)

\* max(x, 0)
Clamp(x) == IF Lt(x, Zero) THEN Zero ELSE x

\* (sum of fare_amount^2 over S) / count - (mean over S)^2
RefTwoMoment(S) ==
  Sub(Div(SumWhere([i \in Rows |-> Sq(data["fare_amount"][i])], S),
          ToFloat(Cardinality(S))),
      Sq(RefMean(S)))

\* two-pass population variance: the mean of the squared deviations from
\* the mean over S
RefPopulationVariance(S) ==
  LET mean == RefMean(S)
  IN Div(SumWhere([i \in Rows |-> Sq(Sub(data["fare_amount"][i], mean))], S),
         ToFloat(Cardinality(S)))

\* the standard deviation the specification asks for
RefStd(S) == Sqrt(Clamp(RefTwoMoment(S)))

\* C3: the value broadcast into fare_std is sqrt(max(variance, 0)) of the
\* row's group, with variance = sum(x^2)/count - mean^2.
C3_FareStdIsClampedSqrt ==
  Broadcasted => \A i \in Rows : data["fare_std"][i] = RefStd(SameKey(i))

\* C4: fare_z of a row is (fare_amount - group mean) / (group std + 1) with
\* the mean and the standard deviation of the row's own group.
C4_ZScoreUsesGroupStd ==
  Scored =>
    \A i \in Rows :
      data["fare_z"][i] =
        Div(Sub(data["fare_amount"][i], RefMean(SameKey(i))),
            Add(RefStd(SameKey(i)), One))

\* C5: on the table A = [10, 10, 10], B = [0, 20] the z-scores are 0, 0, 0
\* for A, and (0-10)/11 and (20-10)/11 for B.
C5_SyntheticZScores ==
  (Scored /\ [k \in DOMAIN SyntheticTable |-> data[k]] = SyntheticTable) =>
    data["fare_z"] = <<Zero, Zero, Zero,
                       Div(ToFloat(0 - 10), ToFloat(11)),
                       Div(ToFloat(20 - 10), ToFloat(11))>>

\* C6: for every group the value computed from the two aggregates,
\* sum(x^2)/count - (sum(x)/count)^2, equals the population variance of the
\* group's rows and is >= 0.
C6_TwoMomentIsPopulationVariance ==
  pc \in {"broadcast", "z", "exorbitant", "worst", "done"} =>
    \A k \in Groups :
      /\ sf[k] = RefPopulationVariance(GroupRows(k))
      /\ Ge(sf[k], Zero)

\* C7: a group of exactly one row gets the value 0 as its fare_std, and the
\* row gets fare_z = 0.
C7_SingletonStdZero ==
  /\ pc \in {"broadcast", "z", "exorbitant", "worst", "done"} =>
       \A k \in Groups : w[k] = 1 => sf[k] = Zero
  /\ Broadcasted =>
       \A i \in Rows : SameKey(i) = {i} => data["fare_std"][i] = Zero
  /\ Scored =>
       \A i \in Rows : SameKey(i) = {i} => data["fare_z"][i] = Zero

\* a row alone in its group, with a fare other than 0, next to a larger group
C7_Witness ==
  /\ Scored
  /\ \E i \in Rows :
       /\ SameKey(i) = {i}
       /\ data["fare_amount"][i] # Zero
       /\ data["fare_z"][i] = Zero
       /\ \E j \in Rows : Cardinality(SameKey(j)) > 1

\* C8: on a fare_z column with rows, argmax returns a row whose fare_z no
\* other row exceeds, and every earlier row has a strictly smaller fare_z
\* (first occurrence of the maximum); on A = [10, 10, 10], B = [0, 20] it
\* returns the row with fare 20.
C8_ArgmaxFirstMaximum ==
  (pc = "done" /\ NRows(data) > 0) =>
    /\ err = "none"
    /\ worst \in Rows
    /\ \A i \in Rows : Ge(data["fare_z"][worst], data["fare_z"][i])
    /\ \A i \in Rows : i < worst => Lt(data["fare_z"][i], data["fare_z"][worst])
    /\ row = [k \in DOMAIN data |-> data[k][worst]]
    /\ [k \in DOMAIN SyntheticTable |-> data[k]] = SyntheticTable =>
         worst = 5 /\ row["fare_amount"] = ToFloat(20)

\* the maximum occurs twice, after a row with a smaller fare_z
C8_Witness ==
  /\ pc = "done"
  /\ err = "none"
  /\ worst \in Rows
  /\ \E i \in Rows : i < worst /\ data["fare_z"][i] # data["fare_z"][worst]
  /\ \E i \in Rows : i > worst /\ data["fare_z"][i] = data["fare_z"][worst]

\* the rows with fare_z > 2, in increasing order
Exorbitant == SortedSeq({i \in Rows : Gt(data["fare_z"][i], Two)})

\* C9: filtering with fare_z > 2 yields exactly the rows whose fare_z
\* exceeds 2, in their original order, with every original and derived
\* column and unchanged values; without such rows the result is a table
\* without rows and no error is raised.
C9_FilterKeepsExorbitantRows ==
  (notebook = "tutorial" /\ pc \in {"worst", "done"}) =>
    /\ DOMAIN exdf = DOMAIN data
    /\ {"PULocationID", "DOLocationID", "fare_amount", "fare_mean", "fare_std",
        "fare_z"} \subseteq DOMAIN exdf
    /\ \A k \in DOMAIN exdf :
         exdf[k] = [j \in 1..Len(Exorbitant) |-> data[k][Exorbitant[j]]]
    /\ Len(Exorbitant) = 0 => \A k \in DOMAIN exdf : exdf[k] = <<>>
    /\ pc = "worst" => err = "none"

\* two rows survive, with a row that does not survive between them
C9_Witness ==
  /\ notebook = "tutorial"
  /\ pc = "worst"
  /\ Len(exdf["fare_z"]) = 2
  /\ \E i \in Rows : \E j \in Rows : \E k \in Rows :
       /\ i < j /\ j < k
       /\ exorbitant[i] /\ ~exorbitant[j] /\ exorbitant[k]
       /\ exdf["DOLocationID"] = <<data["DOLocationID"][i], data["DOLocationID"][k]>>
       /\ data["DOLocationID"][i] # data["DOLocationID"][k]

\* C10: argmax of a fare_z column without rows ends in one explicit
\* outcome: the error EmptySelectionError, or the fixed index of the first
\* position.
C10_EmptyArgmaxIsExplicit ==
  (pc = "done" /\ NRows(data) = 0) =>
    \/ err = "EmptySelectionError"
    \/ worst = 1

\* the stage a cell belongs to: 1 group, 2 aggregate (count, mean, sum of
\* squares), 3 broadcast, 4 z-score, 5 filter and argmax, 6 the end of the
\* run; 0 for the cells that come before grouping
StageOf(cell) ==
  IF cell = "groupby" THEN 1
  ELSE IF cell \in {"size", "mean", "sf"} THEN 2
  ELSE IF cell = "broadcast" THEN 3
  ELSE IF cell = "z" THEN 4
  ELSE IF cell \in {"exorbitant", "worst"} THEN 5
  ELSE IF cell = "done" THEN 6
  ELSE 0

\* the keys that occur in data
KeysOfData == {RowKey(i) : i \in Rows}

\* there is one aggregate record (key, count, mean, sf) for every key of data
AggregatesComplete ==
  /\ byloc.length = NRows(data)
  /\ DOMAIN u = 1..Cardinality(KeysOfData)
  /\ DOMAIN v = DOMAIN u /\ DOMAIN w = DOMAIN u
  /\ DOMAIN mf = DOMAIN u /\ DOMAIN sf = DOMAIN u
  /\ {<<u[k], v[k]>> : k \in DOMAIN u} = KeysOfData

\* fare_mean and fare_std hold a value for every row
MeanAndStdAttached ==
  /\ {"fare_mean", "fare_std"} \subseteq DOMAIN data
  /\ DOMAIN data["fare_mean"] = Rows
  /\ DOMAIN data["fare_std"] = Rows

\* C11: the stages of a run come in the order group, aggregate, broadcast,
\* z-score, filter/argmax, none skipped and none repeated after a later one;
\* when the broadcast cell is the next to run there is a complete aggregate
\* record for every group, and when the z-score cell is the next to run
\* fare_mean and fare_std are attached to every row.
C11_StagesInOrder ==
  [][/\ StageOf(pc) <= StageOf(pc')
     /\ StageOf(pc') <= StageOf(pc) + 1
     /\ pc' = "broadcast" => AggregatesComplete'
     /\ pc' = "z" => MeanAndStdAttached']_vars

\* a run on rows of two routes has gone through every stage
C11_Witness ==
  /\ pc = "done"
  /\ err = "none"
  /\ Cardinality(KeysOfData) >= 2
  /\ AggregatesComplete
  /\ MeanAndStdAttached
  /\ "fare_z" \in DOMAIN data

\* fare_amount ** 2
Squares == [i \in 1..NRows(data) |-> Sq(data["fare_amount"][i])]

\* the cells after the one that computes mf, and after the one that computes sf
HasMean == pc \in {"sf", "broadcast", "z", "exorbitant", "worst", "done"}
HasSf == pc \in {"broadcast", "z", "exorbitant", "worst", "done"}

\* the rows of every group are the rows that have the group's key, and the
\* counts are those of one reduction over each group's rows in turn
SameMembersAndCounts ==
  /\ \A k \in Groups :
       GroupRows(k) = {i \in Rows : RowKey(i) = <<u[k], v[k]>>}
  /\ w = GroupSize(byloc)

\* C12 (as stated): with the rows of a group in several blocks, each reduced
\* by its own shard, the partial results combined in any order give the
\* group membership, count, sum and mean that one reduction over the
\* group's rows in turn gives (the sum is the sum of squares that sf is
\* computed from).
C12_ShardedEqualsSequential ==
  /\ Grouped => SameMembersAndCounts
  /\ HasMean => mf = GroupMean(byloc, data["fare_amount"])
  /\ HasSf => sf = Variance(GroupSum(byloc, Squares), w, mf)

\* the rows of group k lie in more than one block
Split(k) ==
  \E s \in DOMAIN cuts :
    byloc.segments[k] <= cuts[s] /\ cuts[s] < SegEnd(byloc, k)

\* C12 (amended): however the rows are cut into blocks and in whatever order
\* the partial results are combined, group membership and the per-group
\* count are those of one reduction over the group's rows in turn; the sum
\* and the mean are those of that reduction for every group whose rows lie
\* in one block.
C12_CountsAndUnsplitSums ==
  /\ Grouped => SameMembersAndCounts
  /\ HasMean =>
       \A k \in Groups :
         ~Split(k) => mf[k] = GroupMean(byloc, data["fare_amount"])[k]
  /\ HasSf =>
       \A k \in Groups :
         ~Split(k) => sf[k] = Variance(GroupSum(byloc, Squares), w, mf)[k]

\* a run to the end with a group of several rows spread over two blocks and
\* another group of several rows inside one block
C12_Witness ==
  /\ pc = "done"
  /\ \E k \in Groups : \E j \in Groups :
       /\ Split(k) /\ w[k] >= 2
       /\ ~Split(j) /\ w[j] >= 2

\* every step leaves data with the columns, rows and values it had
DataKept == \A k \in DOMAIN data : k \in DOMAIN data' /\ data'[k] = data[k]

\* C13 (as stated): data is only ever given new columns; no step, the two
\* filters included, takes a row or a value away from it, so the loaded rows
\* all stay in it.
C13_DataNeverLosesRows == [][DataKept]_vars

\* the rows of data with fare_amount >= 0, in row order
NonNegRows == SortedSeq({i \in Rows : Ge(data["fare_amount"][i], Zero)})

\* C13 (amended): the fare_amount >= 0 filter puts its narrower table in
\* the place of data, which from then on holds the rows with fare_amount >= 0
\* of the table before, in their order and with their values, and no longer
\* the rows with a negative fare; the fare_z > 2 filter makes the new table
\* exdf with the columns of data and no more rows, and leaves data as it
\* was; every other step leaves data with all its rows and values and at
\* most adds columns.
C13_OnlyNonNegFilterNarrowsData ==
  [][/\ pc = "filter" =>
          /\ DOMAIN data' = DOMAIN data
          /\ \A k \in DOMAIN data :
               data'[k] = [j \in 1..Len(NonNegRows) |-> data[k][NonNegRows[j]]]
     /\ pc # "filter" => DataKept
     /\ pc = "exorbitant" =>
          /\ data' = data
          /\ DOMAIN exdf' = DOMAIN data
          /\ NRows(exdf') <= NRows(data)]_vars

\* a run in which the first filter has dropped a row of the loaded table and
\* the second has selected some rows of data, not all
C13_Witness ==
  /\ notebook = "tutorial"
  /\ pc = "done"
  /\ Len(non_neg) > NRows(data)
  /\ NRows(exdf) > 0
  /\ NRows(exdf) < NRows(data)
  /\ {"PUBorough", "fare_mean", "fare_std", "fare_z"} \subseteq DOMAIN data

\* the positions of the lookup table whose LocationID is id
LookupRows(id) ==
  {r \in 1..Len(aktzlut["LocationID"]) : aktzlut["LocationID"][r] = id}

\* column col of data holds, for every row, the attribute attr of the one
\* lookup row whose LocationID is the row's entry in column idcol
LookedUp(col, attr, idcol) ==
  /\ col \in DOMAIN data
  /\ DOMAIN data[col] = Rows
  /\ \A i \in Rows :
       /\ Cardinality(LookupRows(data[idcol][i])) = 1
       /\ \A r \in LookupRows(data[idcol][i]) : data[col][i] = aktzlut[attr][r]

\* C14: once the row with LocationID 0 is put on top of the lookup table and
\* the index reset, LocationID[i] = i at every position i (counted from 0)
\* and the index is 0, 1, 2, ...; the lookup cells then give every trip row
\* the Borough and the Zone of the lookup row whose LocationID is the trip's
\* PULocationID, and the same for DOLocationID, and they add these columns
\* without a change to the rows and values that data had.
C14_LookupByLocationID ==
  [][/\ pc = "tzlut" =>
          /\ tzlut'.index = [i \in 1..(NumZones + 1) |-> i - 1]
          /\ tzlut'.cols["LocationID"] = tzlut'.index
     /\ pc = "aktzlut" =>
          \A i \in 1..Len(aktzlut'["LocationID"]) :
            aktzlut'["LocationID"][i] = i - 1
     /\ pc = "borough" =>
          /\ DataKept
          /\ LookedUp("PUBorough", "Borough", "PULocationID")'
          /\ LookedUp("DOBorough", "Borough", "DOLocationID")'
     /\ pc = "zone" =>
          /\ DataKept
          /\ LookedUp("PUZone", "Zone", "PULocationID")'
          /\ LookedUp("DOZone", "Zone", "DOLocationID")'
          /\ DOMAIN data' = DOMAIN data \cup {"PUZone", "DOZone"}]_vars

\* the lookup columns are attached to trips that differ in their pickup and
\* in their dropoff location, among them a zone whose name is missing
C14_Witness ==
  /\ pc = "groupby"
  /\ notebook = "tutorial"
  /\ ZeroUp(aktzlut)
  /\ \E i \in Rows : \E j \in Rows :
       /\ data["PUBorough"][i] # data["PUBorough"][j]
       /\ data["DOZone"][i] # data["DOZone"][j]
       /\ data["PUZone"][j] = "N/A"

\* byloc has been built, by the cell before "size"
HasGroupBy ==
  pc \in {"size", "mean", "sf", "broadcast", "z", "exorbitant", "worst", "done"}

\* C15: in every state all columns of data have one entry for each of the
\* same rows; once byloc is built it is the grouping of the rows of data as
\* they are then (as many rows, their keys, every row in one group), and so
\* fare_mean and fare_std hold for each row the mf and sf of the group of
\* that row, and fare_z is computed from the fare_amount, fare_mean and
\* fare_std of the same row.
C15_ColumnsAligned ==
  /\ \A k \in DOMAIN data : DOMAIN data[k] = Rows
  /\ HasGroupBy =>
       /\ byloc.length = NRows(data)
       /\ {byloc.permutation[k] : k \in 1..byloc.length} = Rows
       /\ byloc = GroupBy(<<data["PULocationID"], data["DOLocationID"]>>)
  /\ Broadcasted =>
       \A k \in Groups : \A i \in GroupRows(k) :
         /\ RowKey(i) = <<u[k], v[k]>>
         /\ data["fare_mean"][i] = mf[k]
         /\ data["fare_std"][i] = sf[k]
  /\ Scored =>
       \A i \in Rows :
         data["fare_z"][i] =
           Div(Sub(data["fare_amount"][i], data["fare_mean"][i]),
               Add(data["fare_std"][i], One))

\* the tutorial notebook has filtered out a row and attached the lookup
\* columns and the three derived columns; two rows of one group with
\* different fares have a row of another group between them
C15_Witness ==
  /\ notebook = "tutorial"
  /\ pc = "done"
  /\ Len(non_neg) > NRows(data)
  /\ {"PUBorough", "DOZone", "fare_mean", "fare_std", "fare_z"} \subseteq DOMAIN data
  /\ \E i \in Rows : \E j \in Rows : \E k \in Rows :
       /\ i < j /\ j < k
       /\ RowKey(i) = RowKey(k)
       /\ RowKey(i) # RowKey(j)
       /\ data["fare_mean"][i] = data["fare_mean"][k]
       /\ data["fare_z"][i] # data["fare_z"][k]

\* C16: in the tutorial notebook every row of data has fare_amount >= 0
\* from the cell that builds the GroupBy on, and the denominator
\* fare_std + 1 of fare_z is >= 1 for every row, so that the division is
\* defined for every row.
C16_DenominatorAtLeastOne ==
  notebook = "tutorial" =>
    /\ HasGroupBy => \A i \in Rows : Ge(data["fare_amount"][i], Zero)
    /\ Broadcasted =>
         \A i \in Rows :
           /\ Ge(Add(data["fare_std"][i], One), One)
           /\ Add(data["fare_std"][i], One) # Zero

=============================================================================
